---- MODULE Spec2Model ----
(***************************************************************************)
(* A model of FawltyDeps' declared-dependency extraction                   *)
(* (fawltydeps/extract_dependencies.py) and of the reconciliation of       *)
(* imports against declared dependencies (compare_imports_to_dependencies).*)
(*                                                                         *)
(* Python generators are modelled by what a consumer can observe of them:  *)
(* the records they yield, in order, the log entries they write, and the   *)
(* exception (if any) that ends them.  A generator that raises has yielded *)
(* everything it yielded before the raise.                                 *)
(*                                                                         *)
(* Python strings are sequences of one-character strings, so that          *)
(* str.lower(), str.strip(), splitting into lines and iterating a string   *)
(* character by character are computed, not assumed.                       *)
(***************************************************************************)
EXTENDS Integers, Sequences, FiniteSets, TLC

VARIABLES
    pc,        \* "idle" | "running" | "returned" | "raised" | "compared"
    arg,       \* the argument of the call under way
    pending,   \* records the suspended generator has still to yield
    raising,   \* the exception that ends the generator after them, or "none"
    out,       \* records the consumer has received, in order
    error,     \* the exception that reached the consumer, or "none"
    log,       \* log entries written so far
    fileIdx,   \* extract_dependencies: index of the file being processed
    reads,     \* extract_dependencies: indices of the files read, in order
    result     \* compare_imports_to_dependencies: <<undeclared, unused>>

vars == <<pc, arg, pending, raising, out, error, log, fileIdx, reads, result>>

(***************************************************************************)
(* Bounds of the model.                                                    *)
(***************************************************************************)
MaxLines == 3
MaxOccurrences == 2
MaxStmts == 2
MaxFiles == 3

(***************************************************************************)
(* Characters and strings.                                                 *)
(***************************************************************************)
UpperLetters == {"D", "P", "F", "B"}
LowerLetters == {"a", "b", "c", "d", "e", "f", "g", "h", "i", "j", "k", "l", "m",
                 "n", "o", "p", "q", "r", "s", "t", "u", "v", "w", "x", "y", "z"}
Digits == {"1"}
AlNum == UpperLetters \cup LowerLetters \cup Digits

\* str.lower() on one character
LowerChar(c) ==
    CASE c = "D" -> "d"
      [] c = "P" -> "p"
      [] c = "F" -> "f"
      [] c = "B" -> "b"
      [] OTHER -> c

\* str.lower()
Lower(s) == [i \in 1..Len(s) |-> LowerChar(s[i])]

\* str.strip() for the blank character of the model
RECURSIVE LStrip(_)
LStrip(s) == IF Len(s) > 0 /\ Head(s) = " " THEN LStrip(Tail(s)) ELSE s

RECURSIVE RStrip(_)
RStrip(s) ==
    IF Len(s) > 0 /\ s[Len(s)] = " " THEN RStrip(SubSeq(s, 1, Len(s) - 1)) ELSE s

Strip(s) == RStrip(LStrip(s))

\* str.splitlines(): the pieces between newline characters
RECURSIVE SplitLines(_)
SplitLines(s) ==
    IF \E i \in 1..Len(s) : s[i] = "\n"
    THEN LET i == CHOOSE k \in 1..Len(s) :
                      s[k] = "\n" /\ \A m \in 1..(k - 1) : s[m] # "\n"
         IN <<SubSeq(s, 1, i - 1)>> \o SplitLines(SubSeq(s, i + 1, Len(s)))
    ELSE <<s>>

\* needle in haystack, for two strings
IsSubstring(needle, hay) ==
    \E i \in 0..(Len(hay) - Len(needle)) :
        SubSeq(hay, i + 1, i + Len(needle)) = needle

(***************************************************************************)
(* Python values, as decoded from TOML or produced by ast.literal_eval.    *)
(* A dict keeps its items in insertion order: <<key, value>> pairs.        *)
(***************************************************************************)
Str(chars) == [t |-> "str", v |-> chars]
PyInt == [t |-> "int", v |-> <<>>]
List(elts) == [t |-> "list", v |-> elts]
Dict(items) == [t |-> "dict", v |-> items]

HasKey(d, key) == \E i \in 1..Len(d.v) : d.v[i][1] = key
Lookup(d, key) == d.v[CHOOSE i \in 1..Len(d.v) : d.v[i][1] = key][2]
DictKeys(d) == [i \in 1..Len(d.v) |-> d.v[i][1]]
DictValues(d) == [i \in 1..Len(d.v) |-> d.v[i][2]]

(***************************************************************************)
(* Generators: what was yielded, what was logged, how it ended.            *)
(***************************************************************************)
Gen(recs, entries, exc) == [recs |-> recs, log |-> entries, exc |-> exc]
Empty == Gen(<<>>, <<>>, "none")
Raises(exc) == Gen(<<>>, <<>>, exc)

\* g1 runs, then g2 unless g1 raised
Then(g1, g2) ==
    IF g1.exc # "none" THEN g1
    ELSE Gen(g1.recs \o g2.recs, g1.log \o g2.log, g2.exc)

\* a sequence of generators run one after another (yield from in a loop)
RECURSIVE ThenAll(_)
ThenAll(gs) ==
    IF Len(gs) = 0 THEN Empty ELSE Then(Head(gs), ThenAll(Tail(gs)))

\* try: yield from g  except <caught>: log entry
Catch(g, caught, entry) ==
    IF g.exc \in caught
    THEN Gen(g.recs, g.log \o <<entry>>, "none")
    ELSE g

\* DeclaredDependency(name, location).  origin is a history field of the model,
\* not of the program: the manifest field the record was read from.
DeclaredDependency(name, location) ==
    [name |-> name, location |-> location, origin |-> "text"]

\* the records of g, marked as read from the manifest field origin
From(origin, g) ==
    Gen([i \in 1..Len(g.recs) |-> [g.recs[i] EXCEPT !.origin = origin]],
        g.log, g.exc)

LogEntry(level, what) == [level |-> level, what |-> what]

(***************************************************************************)
(* pkg_resources.parse_requirements, as parse_requirements_contents uses   *)
(* it.  Requirement lines of the model are made of letters, digits, "-",   *)
(* "_", blanks and "#": a line is a valid requirement when it is a project *)
(* name (it starts and ends with a letter or digit); anything else, such   *)
(* as the directive "-r x", is an InvalidRequirement.                      *)
(***************************************************************************)
\* yield_lines: the stripped, non-blank, non-comment lines of a value.  A string
\* gives its lines; another iterable gives the lines of its elements (a dict
\* iterates its keys); a value that is not iterable is a TypeError.
RECURSIVE yield_lines(_)
yield_lines(value) ==
    CASE value.t = "str" ->
            LET ls == SplitLines(value.v)
                stripped == [i \in 1..Len(ls) |-> Strip(ls[i])]
                keep(l) == Len(l) > 0 /\ l[1] # "#"
            IN [lines |-> SelectSeq(stripped, keep), exc |-> "none"]
      [] value.t = "int" -> [lines |-> <<>>, exc |-> "TypeError"]
      [] OTHER ->
            LET elts == IF value.t = "dict"
                        THEN [i \in 1..Len(value.v) |-> Str(value.v[i][1])]
                        ELSE value.v
                parts == [i \in 1..Len(elts) |-> yield_lines(elts[i])]
                firstBad == IF \E i \in 1..Len(parts) : parts[i].exc # "none"
                            THEN CHOOSE i \in 1..Len(parts) :
                                     /\ parts[i].exc # "none"
                                     /\ \A k \in 1..(i - 1) : parts[k].exc = "none"
                            ELSE 0
                upto == IF firstBad = 0 THEN Len(parts) ELSE firstBad
                RECURSIVE Flat(_)
                Flat(n) == IF n = 0 THEN <<>> ELSE Flat(n - 1) \o parts[n].lines
            IN [lines |-> Flat(upto),
                exc |-> IF firstBad = 0 THEN "none" ELSE parts[firstBad].exc]

\* A " #" inside a line starts a comment.
DropComment(line) ==
    IF \E i \in 1..(Len(line) - 1) : line[i] = " " /\ line[i + 1] = "#"
    THEN LET i == CHOOSE k \in 1..(Len(line) - 1) :
                      /\ line[k] = " " /\ line[k + 1] = "#"
                      /\ \A m \in 1..(k - 1) : ~(line[m] = " " /\ line[m + 1] = "#")
         IN SubSeq(line, 1, i - 1)
    ELSE line

\* The project name a line starts with: the longest run of name characters
\* that ends with a letter or digit (0 when the line does not start with one).
NameLen(line) ==
    LET ends == {n \in 1..Len(line) :
                    /\ \A i \in 1..n : line[i] \in AlNum \cup {"-", "_"}
                    /\ line[1] \in AlNum
                    /\ line[n] \in AlNum}
    IN IF ends = {} THEN 0 ELSE CHOOSE n \in ends : \A m \in ends : m <= n

\* pkg_resources.safe_name: runs of characters other than letters, digits
\* and "." become one "-".
RECURSIVE safe_name(_)
safe_name(name) ==
    IF Len(name) = 0 THEN <<>>
    ELSE IF Head(name) \in AlNum THEN <<Head(name)>> \o safe_name(Tail(name))
    ELSE IF Len(name) > 1 /\ name[2] \notin AlNum THEN safe_name(Tail(name))
    ELSE <<"-">> \o safe_name(Tail(name))

\* Requirement(line): [ok, key], key = safe_name(name).lower()
Requirement(line) ==
    LET l == Strip(DropComment(line))
        n == NameLen(l)
    IN IF n > 0 /\ Len(Strip(SubSeq(l, n + 1, Len(l)))) = 0
       THEN [ok |-> TRUE, key |-> Lower(safe_name(SubSeq(l, 1, n)))]
       ELSE [ok |-> FALSE, key |-> <<>>]

\* for requirement in parse_requirements(text): yield DeclaredDependency(...)
parse_requirements_contents(text, path_hint) ==
    LET yl == yield_lines(text)
        reqs == [i \in 1..Len(yl.lines) |-> Requirement(yl.lines[i])]
        firstBad == IF \E i \in 1..Len(reqs) : ~reqs[i].ok
                    THEN CHOOSE i \in 1..Len(reqs) :
                             ~reqs[i].ok /\ \A k \in 1..(i - 1) : reqs[k].ok
                    ELSE 0
        n == IF firstBad = 0 THEN Len(reqs) ELSE firstBad - 1
    IN Gen([i \in 1..n |-> DeclaredDependency(reqs[i].key, path_hint)],
           <<>>,
           IF firstBad # 0 THEN "InvalidRequirement" ELSE yl.exc)

(***************************************************************************)
(* Requirement texts of the model: up to MaxLines lines of a pool.         *)
(***************************************************************************)
ReqLinePool ==
    { <<"D", "j", "a", "n", "g", "o">>,          \* Django
      <<"r", "e", "q">>,                          \* req
      <<"F", "o", "o", "_", "B", "a", "r">>,      \* Foo_Bar
      <<"-", "r", " ", "x">>,                     \* the directive -r x
      <<"a", " ", "b">>,                          \* not a requirement
      <<"#", " ", "x">>,                          \* a comment
      <<>> }                                      \* a blank line

RECURSIVE JoinLines(_)
JoinLines(ls) ==
    IF Len(ls) = 0 THEN <<>>
    ELSE IF Len(ls) = 1 THEN ls[1]
    ELSE ls[1] \o <<"\n">> \o JoinLines(Tail(ls))

LineSeqs == UNION {[1..n -> ReqLinePool] : n \in 0..MaxLines}
ReqTexts == {JoinLines(ls) : ls \in LineSeqs}

(***************************************************************************)
(* The consumer's side of a generator: each next() either receives the     *)
(* next record, or ends the iteration (StopIteration), or receives the     *)
(* exception the generator raised.                                         *)
(***************************************************************************)
Idle(a) ==
    /\ pc = "idle"
    /\ arg = a
    /\ pending = <<>>
    /\ raising = "none"
    /\ out = <<>>
    /\ error = "none"
    /\ log = <<>>
    /\ fileIdx = 0
    /\ reads = <<>>
    /\ result = <<>>

\* The generator g starts running.
Start(g) ==
    /\ pc' = "running"
    /\ pending' = g.recs
    /\ raising' = g.exc
    /\ log' = log \o g.log

Yield ==
    /\ pc = "running"
    /\ Len(pending) > 0
    /\ out' = Append(out, Head(pending))
    /\ pending' = Tail(pending)
    /\ UNCHANGED <<pc, arg, raising, error, log, fileIdx, reads, result>>

Return ==
    /\ pc = "running"
    /\ Len(pending) = 0
    /\ raising = "none"
    /\ fileIdx = 0
    /\ pc' = "returned"
    /\ UNCHANGED <<arg, pending, raising, out, error, log, fileIdx, reads, result>>

Raise ==
    /\ pc = "running"
    /\ Len(pending) = 0
    /\ raising # "none"
    /\ pc' = "raised"
    /\ error' = raising
    /\ raising' = "none"
    /\ UNCHANGED <<arg, pending, out, log, fileIdx, reads, result>>

(***************************************************************************)
(* parse_requirements_contents applied to a requirements text.             *)
(***************************************************************************)
ReqPath == "requirements.txt"

InitReq == \E text \in ReqTexts : Idle(Str(text))

CallParseRequirements ==
    /\ pc = "idle"
    /\ Start(parse_requirements_contents(arg, ReqPath))
    /\ UNCHANGED <<arg, out, error, fileIdx, reads, result>>

NextReq == CallParseRequirements \/ Yield \/ Return \/ Raise

SpecReq == InitReq /\ [][NextReq]_vars

(***************************************************************************)
(* setup.py.  A Python syntax tree: every node is [node, name, value,      *)
(* kids], kids being its child nodes in the order ast.iter_child_nodes     *)
(* gives them.                                                             *)
(***************************************************************************)
NoValue == [t |-> "none", v |-> <<>>]
Node(kind, name, value, kids) ==
    [node |-> kind, name |-> name, value |-> value, kids |-> kids]

Name(id) == Node("Name", id, NoValue, <<>>)
Attribute(value, attr) == Node("Attribute", attr, NoValue, <<value>>)
Constant(value) == Node("Constant", "", value, <<>>)
ListNode(elts) == Node("List", "", NoValue, elts)
\* ast.Dict: the keys, then the values
DictNode(keys, values) == Node("Dict", "", NoValue, keys \o values)
keyword(argname, value) == Node("keyword", argname, NoValue, <<value>>)
\* ast.Call: func, then the keywords
Call(func, keywords) == Node("Call", "", NoValue, <<func>> \o keywords)
Expr(value) == Node("Expr", "", NoValue, <<value>>)
Assign(target, value) == Node("Assign", "", NoValue, <<target, value>>)
\* ast.If: test, then the body
If(test, body) == Node("If", "", NoValue, <<test>> \o body)
FunctionDef(name, body) == Node("FunctionDef", name, NoValue, body)
Module(body) == Node("Module", "", NoValue, body)

CallFunc(call) == call.kids[1]
CallKeywords(call) == Tail(call.kids)
DictNodeValues(d) == SubSeq(d.kids, Len(d.kids) \div 2 + 1, Len(d.kids))

\* ast.walk: breadth first, from a queue of nodes
RECURSIVE walk(_)
walk(todo) ==
    IF Len(todo) = 0 THEN <<>>
    ELSE <<Head(todo)>> \o walk(Tail(todo) \o Head(todo).kids)

_is_setup_function_call(node) ==
    /\ node.node = "Expr"
    /\ node.kids[1].node = "Call"
    /\ CallFunc(node.kids[1]).node = "Name"
    /\ CallFunc(node.kids[1]).name = "setup"

\* ast.literal_eval of a Constant node
literal_eval(element) == element.value

_extract_deps_from_bottom_level_list(deps, path_hint) ==
    IF deps.node = "List"
    THEN ThenAll([i \in 1..Len(deps.kids) |->
             IF deps.kids[i].node = "Constant"
             THEN parse_requirements_contents(literal_eval(deps.kids[i]), path_hint)
             ELSE Empty])
    ELSE Raises("DependencyParsingError")

\* the body of the try statement, for one keyword
ExtractKeyword(kw, path_hint) ==
    IF kw.name = "install_requires"
    THEN _extract_deps_from_bottom_level_list(kw.kids[1], path_hint)
    ELSE IF kw.name = "extras_require"
    THEN IF kw.kids[1].node = "Dict"
         THEN ThenAll([i \in 1..Len(DictNodeValues(kw.kids[1])) |->
                  _extract_deps_from_bottom_level_list(
                      DictNodeValues(kw.kids[1])[i], path_hint)])
         ELSE Raises("DependencyParsingError")
    ELSE Empty

\* the loop over the keywords without its except clause
_extract_deps_from_setup_call_NoExcept(call, path_hint) ==
    ThenAll([i \in 1..Len(CallKeywords(call)) |->
        LET kw == CallKeywords(call)[i]
        IN From(kw.name, ExtractKeyword(kw, path_hint))])

_extract_deps_from_setup_call(call, path_hint) ==
    ThenAll([i \in 1..Len(CallKeywords(call)) |->
        LET kw == CallKeywords(call)[i]
        IN From(kw.name,
                Catch(ExtractKeyword(kw, path_hint), {"DependencyParsingError"},
                      LogEntry("warning", kw.name)))])

\* the loop over ast.walk without its break
SetupCallsFound_NoBreak(nodes, path_hint) ==
    LET isSetup(n) == _is_setup_function_call(n)
        found == SelectSeq(nodes, isSetup)
    IN ThenAll([i \in 1..Len(found) |->
           _extract_deps_from_setup_call(found[i].kids[1], path_hint)])

\* for node in ast.walk(...): if _is_setup_function_call(node): ...; break
SetupCallsFound(nodes, path_hint) ==
    LET isSetup(n) == _is_setup_function_call(n)
        found == SelectSeq(nodes, isSetup)
    IN IF Len(found) = 0 THEN Empty
       ELSE _extract_deps_from_setup_call(found[1].kids[1], path_hint)

\* A setup.py text is its syntax tree, or has a syntax error (ast.parse raises).
SetupText(tree) == [syntax_error |-> FALSE, tree |-> tree]
BrokenSetupText == [syntax_error |-> TRUE, tree |-> Module(<<>>)]

parse_setup_contents(text, path_hint) ==
    IF text.syntax_error THEN Raises("SyntaxError")
    ELSE SetupCallsFound(walk(<<text.tree>>), path_hint)

\* Requirement strings and setup(...) calls of the model's setup.py files.
S_Django == Str(<<"D", "j", "a", "n", "g", "o">>)
S_req == Str(<<"r", "e", "q">>)
S_Foo_Bar == Str(<<"F", "o", "o", "_", "B", "a", "r">>)
S_pytest == Str(<<"p", "y", "t", "e", "s", "t">>)
S_directive == Str(<<"-", "r", " ", "x">>)

SetupCallPool ==
    << \* setup(name="x")
       Call(Name("setup"), <<keyword("name", Constant(Str(<<"x">>)))>>),
       \* setup(install_requires=["Django"])
       Call(Name("setup"),
            <<keyword("install_requires", ListNode(<<Constant(S_Django)>>))>>),
       \* setup(install_requires=["req"], extras_require={"a": ["Foo_Bar"]})
       Call(Name("setup"),
            <<keyword("install_requires", ListNode(<<Constant(S_req)>>)),
              keyword("extras_require",
                      DictNode(<<Constant(Str(<<"a">>))>>,
                               <<ListNode(<<Constant(S_Foo_Bar)>>)>>))>>),
       \* setup(install_requires=f(), extras_require={"a": ["pytest"]})
       Call(Name("setup"),
            <<keyword("install_requires", Call(Name("f"), <<>>)),
              keyword("extras_require",
                      DictNode(<<Constant(Str(<<"a">>))>>,
                               <<ListNode(<<Constant(S_pytest)>>)>>))>>),
       \* setup(extras_require={"a": ["Django"], "b": f(), "x": ["req"]},
       \*       install_requires=["pytest"])
       Call(Name("setup"),
            <<keyword("extras_require",
                      DictNode(<<Constant(Str(<<"a">>)), Constant(Str(<<"b">>)),
                                 Constant(Str(<<"x">>))>>,
                               <<ListNode(<<Constant(S_Django)>>),
                                 Call(Name("f"), <<>>),
                                 ListNode(<<Constant(S_req)>>)>>)),
              keyword("install_requires", ListNode(<<Constant(S_pytest)>>))>>),
       \* setup(extras_require=f(), install_requires=["req", x])
       Call(Name("setup"),
            <<keyword("extras_require", Call(Name("f"), <<>>)),
              keyword("install_requires",
                      ListNode(<<Constant(S_req), Name("x")>>))>>),
       \* setup(install_requires=["Django", 1, "req"])
       Call(Name("setup"),
            <<keyword("install_requires",
                      ListNode(<<Constant(S_Django), Constant(PyInt),
                                 Constant(S_req)>>))>>),
       \* setup(install_requires=["req", "-r x", "Django"])
       Call(Name("setup"),
            <<keyword("install_requires",
                      ListNode(<<Constant(S_req), Constant(S_directive),
                                 Constant(S_Django)>>))>>),
       \* setup(install_requires=["req"], extras_require=f())
       Call(Name("setup"),
            <<keyword("install_requires", ListNode(<<Constant(S_req)>>)),
              keyword("extras_require", Call(Name("f"), <<>>))>>) >>

MainTest == Name("__name__")

\* The statements a module of the model is made of: for each call of the pool,
\* the call as a statement, in an if, in a def, two ifs deep and assigned; and
\* statements that are no setup(...) call.
StmtPool ==
    [i \in 1..Len(SetupCallPool) |-> Expr(SetupCallPool[i])]
    \o [i \in 1..Len(SetupCallPool) |-> If(MainTest, <<Expr(SetupCallPool[i])>>)]
    \o << FunctionDef("main", <<Expr(SetupCallPool[2])>>),
          If(MainTest, <<If(MainTest, <<Expr(SetupCallPool[3])>>)>>),
          Assign(Name("x"), SetupCallPool[2]),
          Expr(Call(Attribute(Name("setuptools"), "setup"),
                    CallKeywords(SetupCallPool[2]))),
          Expr(Call(Name("print"), <<>>)) >>

StmtIndexSeqs == UNION {[1..n -> 1..Len(StmtPool)] : n \in 0..MaxStmts}
ModuleOf(idx) == Module([i \in 1..Len(idx) |-> StmtPool[idx[i]]])

SetupPath == "setup.py"

InitSetup ==
    \/ Idle(BrokenSetupText)
    \/ \E idx \in StmtIndexSeqs : Idle(SetupText(ModuleOf(idx)))

CallParseSetup ==
    /\ pc = "idle"
    /\ Start(parse_setup_contents(arg, SetupPath))
    /\ UNCHANGED <<arg, out, error, fileIdx, reads, result>>

NextSetup == CallParseSetup \/ Yield \/ Return \/ Raise

SpecSetup == InitSetup /\ [][NextSetup]_vars

\* Helpers of the statements below.
Finished == pc \in {"returned", "raised"}
OutFrom(field_type) ==
    LET fromField(r) == r.origin = field_type IN SelectSeq(out, fromField)
Logged(level, what) ==
    \E i \in 1..Len(log) : log[i] = LogEntry(level, what)
TopLevelSetupCalls(tree) ==
    LET isSetup(n) == _is_setup_function_call(n) IN SelectSeq(tree.kids, isSetup)

\* C9: a setup.py whose only setup(...) calls are nested inside other
\* statements yields no declared dependency.
C9_NestedSetupIgnored ==
    (/\ Finished
     /\ ~arg.syntax_error
     /\ Len(TopLevelSetupCalls(arg.tree)) = 0) => out = <<>>

\* C10: with more than one top-level setup(...) call, what parse_setup_contents
\* yields, and how it ends, is what the first of them in source order gives
\* alone: later calls contribute no record.
C10_FirstSetupCallOnly ==
    (/\ Finished
     /\ ~arg.syntax_error
     /\ Len(TopLevelSetupCalls(arg.tree)) > 1)
    => LET first == TopLevelSetupCalls(arg.tree)[1].kids[1]
           alone == _extract_deps_from_setup_call(first, SetupPath)
       IN out = alone.recs /\ error = alone.exc

\* setup(name="x") followed by setup(install_requires=["Django"]): nothing is
\* yielded.
C10_Witness ==
    /\ pc = "returned"
    /\ ~arg.syntax_error
    /\ Len(TopLevelSetupCalls(arg.tree)) = 2
    /\ CallKeywords(TopLevelSetupCalls(arg.tree)[1].kids[1])[1].name = "name"
    /\ CallKeywords(TopLevelSetupCalls(arg.tree)[2].kids[1])[1].name
           = "install_requires"
    /\ out = <<>>

\* the setup(...) call parse_setup_contents extracts from, where there is one
HasSetupCall ==
    /\ ~arg.syntax_error
    /\ \E i \in 1..Len(walk(<<arg.tree>>)) :
           _is_setup_function_call(walk(<<arg.tree>>)[i])
TheSetupCall ==
    LET isSetup(n) == _is_setup_function_call(n)
    IN SelectSeq(walk(<<arg.tree>>), isSetup)[1].kids[1]
KeywordsNamed(call, argname) ==
    LET named(kw) == kw.name = argname IN SelectSeq(CallKeywords(call), named)
IsList(n) == n.node = "List"

\* an extras_require mapping of the call with a value that is no literal list
HasBrokenExtrasEntry(call) ==
    \E k \in 1..Len(KeywordsNamed(call, "extras_require")) :
        LET d == KeywordsNamed(call, "extras_require")[k].kids[1]
        IN /\ d.node = "Dict"
           /\ \E i \in 1..Len(DictNodeValues(d)) : ~IsList(DictNodeValues(d)[i])

\* what the literal-list values of the extras_require mappings give
ListEntriesOfExtras(call) ==
    LET kws == KeywordsNamed(call, "extras_require")
    IN ThenAll([k \in 1..Len(kws) |->
           LET lists == SelectSeq(DictNodeValues(kws[k].kids[1]), IsList)
           IN From("extras_require",
                   ThenAll([i \in 1..Len(lists) |->
                       _extract_deps_from_bottom_level_list(lists[i], SetupPath)]))])

\* C11: when a value of an extras_require mapping is not a literal list, a
\* warning is logged and the requirement strings of every entry of the mapping
\* whose value is a literal list, before and after it, are all emitted.
C11_OtherExtrasEntriesKept ==
    (/\ pc = "returned"
     /\ HasSetupCall
     /\ HasBrokenExtrasEntry(TheSetupCall)
     /\ ListEntriesOfExtras(TheSetupCall).exc = "none")
    => /\ Logged("warning", "extras_require")
       /\ OutFrom("extras_require") = ListEntriesOfExtras(TheSetupCall).recs

\* install_requires that is no literal list, extras_require that is no literal
\* mapping
WrongShape(kw) ==
    \/ kw.name = "install_requires" /\ ~IsList(kw.kids[1])
    \/ kw.name = "extras_require" /\ kw.kids[1].node # "Dict"
RightShape(kw) == ~WrongShape(kw)
WithoutWrongShape(call) ==
    Call(CallFunc(call), SelectSeq(CallKeywords(call), RightShape))

\* C12: a keyword of the setup(...) call whose value has the wrong shape
\* yields no record and is warned about, and the call yields, and ends, as
\* the same call without that keyword does: the keywords before and after it
\* are extracted in full and nothing is raised on its account.
C12_WrongShapeKeywordSkipped ==
    (/\ Finished
     /\ HasSetupCall
     /\ \E i \in 1..Len(CallKeywords(TheSetupCall)) :
            WrongShape(CallKeywords(TheSetupCall)[i]))
    => LET rest == _extract_deps_from_setup_call(WithoutWrongShape(TheSetupCall),
                                                 SetupPath)
       IN /\ out = rest.recs
          /\ error = rest.exc
          /\ \A i \in 1..Len(CallKeywords(TheSetupCall)) :
                 WrongShape(CallKeywords(TheSetupCall)[i]) =>
                     /\ OutFrom(CallKeywords(TheSetupCall)[i].name) = <<>>
                     /\ Logged("warning", CallKeywords(TheSetupCall)[i].name)

\* setup(install_requires=["req"], extras_require=f()): req is yielded, the
\* warning is logged and the call returns.
C12_Witness ==
    /\ pc = "returned"
    /\ HasSetupCall
    /\ Len(CallKeywords(TheSetupCall)) = 2
    /\ RightShape(CallKeywords(TheSetupCall)[1])
    /\ WrongShape(CallKeywords(TheSetupCall)[2])
    /\ Len(out) = 1
    /\ out[1].origin = "install_requires"
    /\ Logged("warning", "extras_require")

\* C5: parse_requirements_contents raises nothing, and yields the record of
\* every valid line of the text, whatever invalid lines or directives stand
\* before or after it.
C5_BadLinesSkipped ==
    Finished =>
        LET lines == yield_lines(arg).lines
            valid(l) == Requirement(l).ok
            good == SelectSeq(lines, valid)
        IN /\ error = "none"
           /\ out = [i \in 1..Len(good) |->
                        DeclaredDependency(Requirement(good[i]).key, ReqPath)]


(***************************************************************************)
(* pyproject.toml.  Operations on decoded TOML values, each giving either  *)
(* a value or the exception Python raises: [exc, val].                     *)
(***************************************************************************)
Ok(val) == [exc |-> "none", val |-> val]
Err(exc) == [exc |-> exc, val |-> NoValue]

\* value[key]
Subscript(value, key) ==
    IF value.t = "dict"
    THEN IF HasKey(value, key) THEN Ok(Lookup(value, key)) ELSE Err("KeyError")
    ELSE Err("TypeError")

\* value.values() and value.keys()
MethodValues(value) ==
    IF value.t = "dict" THEN Ok(DictValues(value)) ELSE Err("AttributeError")
MethodKeys(value) ==
    IF value.t = "dict" THEN Ok(DictKeys(value)) ELSE Err("AttributeError")

\* for x in value: a list gives its elements, a dict its keys, a string its
\* characters; an int is not iterable
Iterate(value) ==
    CASE value.t = "list" -> Ok(value.v)
      [] value.t = "dict" -> Ok([i \in 1..Len(value.v) |-> Str(value.v[i][1])])
      [] value.t = "str" -> Ok([i \in 1..Len(value.v) |-> Str(<<value.v[i]>>)])
      [] OTHER -> Err("TypeError")

\* key in value: a key of a dict, a substring of a string, an element of a list
Contains(key, value) ==
    CASE value.t = "dict" -> Ok(HasKey(value, key))
      [] value.t = "str" -> Ok(IsSubstring(key, value.v))
      [] value.t = "list" ->
            Ok(\E i \in 1..Len(value.v) :
                   value.v[i].t = "str" /\ value.v[i].v = key)
      [] OTHER -> Err("TypeError")

K_project == <<"p", "r", "o", "j", "e", "c", "t">>
K_dependencies == <<"d", "e", "p", "e", "n", "d", "e", "n", "c", "i", "e", "s">>
K_optional_dependencies == <<"o", "p", "t", "i", "o", "n", "a", "l", "-", "d", "e", "p", "e", "n", "d", "e", "n", "c", "i", "e", "s">>
K_tool == <<"t", "o", "o", "l">>
K_poetry == <<"p", "o", "e", "t", "r", "y">>
K_group == <<"g", "r", "o", "u", "p">>
K_extras == <<"e", "x", "t", "r", "a", "s">>
K_python == <<"p", "y", "t", "h", "o", "n">>

\* try: yield from parser(...) except KeyError: debug; except (AttributeError,
\* TypeError): error.  field_type names the metadata style and the field, as
\* the logged message does.
HandleField(field_type, g) ==
    From(field_type,
         Catch(Catch(g, {"KeyError"}, LogEntry("debug", field_type)),
               {"AttributeError", "TypeError"}, LogEntry("error", field_type)))

\* for requirement in requirements: yield from parse_requirements_contents(...)
EachRequirement(requirements, path_hint) ==
    ThenAll([i \in 1..Len(requirements) |->
                parse_requirements_contents(requirements[i], path_hint)])

\* for requirement in table.keys(): if requirement != "python": yield ...
EachKey(table, path_hint) ==
    LET keys == MethodKeys(table)
        notPython(k) == k # K_python
        kept == IF keys.exc = "none" THEN SelectSeq(keys.val, notPython) ELSE <<>>
    IN Gen([i \in 1..Len(kept) |-> DeclaredDependency(kept[i], path_hint)],
           <<>>, keys.exc)

PoetryMain(poetry_config, path_hint) ==
    LET deps == Subscript(poetry_config, K_dependencies)
    IN IF deps.exc # "none" THEN Raises(deps.exc)
       ELSE EachKey(deps.val, path_hint)

PoetryGroup(poetry_config, path_hint) ==
    LET g == Subscript(poetry_config, K_group)
        groups == IF g.exc = "none" THEN MethodValues(g.val) ELSE Err(g.exc)
    IN IF groups.exc # "none" THEN Raises(groups.exc)
       ELSE ThenAll([i \in 1..Len(groups.val) |->
                LET deps == Subscript(groups.val[i], K_dependencies)
                IN IF deps.exc # "none" THEN Raises(deps.exc)
                   ELSE EachKey(deps.val, path_hint)])

PoetryExtra(poetry_config, path_hint) ==
    LET e == Subscript(poetry_config, K_extras)
        groups == IF e.exc = "none" THEN MethodValues(e.val) ELSE Err(e.exc)
    IN IF groups.exc # "none" THEN Raises(groups.exc)
       ELSE ThenAll([i \in 1..Len(groups.val) |->
                IF groups.val[i].t = "list"
                THEN EachRequirement(groups.val[i].v, path_hint)
                ELSE Raises("TypeError")])

parse_poetry_pyproject_dependencies(poetry_config, path_hint) ==
    Then(HandleField("Poetry main", PoetryMain(poetry_config, path_hint)),
    Then(HandleField("Poetry group", PoetryGroup(poetry_config, path_hint)),
         HandleField("Poetry extra", PoetryExtra(poetry_config, path_hint))))

Pep621Main(parsed_contents, path_hint) ==
    LET p == Subscript(parsed_contents, K_project)
        deps == IF p.exc = "none" THEN Subscript(p.val, K_dependencies)
                ELSE Err(p.exc)
    IN IF deps.exc # "none" THEN Raises(deps.exc)
       ELSE IF deps.val.t = "list" THEN EachRequirement(deps.val.v, path_hint)
       ELSE Raises("TypeError")

Pep621Optional(parsed_contents, path_hint) ==
    LET p == Subscript(parsed_contents, K_project)
        o == IF p.exc = "none" THEN Subscript(p.val, K_optional_dependencies)
             ELSE Err(p.exc)
        groups == IF o.exc = "none" THEN MethodValues(o.val) ELSE Err(o.exc)
    IN IF groups.exc # "none" THEN Raises(groups.exc)
       ELSE ThenAll([i \in 1..Len(groups.val) |->
                LET requirements == Iterate(groups.val[i])
                IN IF requirements.exc # "none" THEN Raises(requirements.exc)
                   ELSE EachRequirement(requirements.val, path_hint)])

parse_pep621_pyproject_contents(parsed_contents, path_hint) ==
    Then(HandleField("PEP621 main", Pep621Main(parsed_contents, path_hint)),
         HandleField("PEP621 optional",
                     Pep621Optional(parsed_contents, path_hint)))

\* A pyproject.toml text is the document it decodes to, or is not valid TOML
\* (tomllib.loads raises).
TomlText(doc) == [valid_toml |-> TRUE, doc |-> doc]
BrokenTomlText == [valid_toml |-> FALSE, doc |-> Dict(<<>>)]

\* the part of parse_pyproject_contents after the PEP 621 fields
PoetryPart(parsed_contents, path_hint) ==
    LET tool == IF HasKey(parsed_contents, K_tool)
                THEN Lookup(parsed_contents, K_tool) ELSE Dict(<<>>)
        has == Contains(K_poetry, tool)
        poetry == Subscript(tool, K_poetry)
    IN IF has.exc # "none" THEN Raises(has.exc)
       ELSE IF ~has.val THEN Gen(<<>>, <<LogEntry("debug", "tool.poetry")>>, "none")
       ELSE IF poetry.exc # "none" THEN Raises(poetry.exc)
       ELSE parse_poetry_pyproject_dependencies(poetry.val, path_hint)

parse_pyproject_contents(text, path_hint) ==
    IF ~text.valid_toml THEN Raises("TOMLDecodeError")
    ELSE Then(parse_pep621_pyproject_contents(text.doc, path_hint),
              PoetryPart(text.doc, path_hint))

\* The values a field of the model's documents takes; Absent: the key is
\* not there.
Absent == [t |-> "absent", v |-> <<>>]
S_version == Str(<<"1">>)
S_a_b == Str(<<"a", "-", "b">>)

\* project.dependencies
Pep621MainPool ==
    << Absent,
       \* ["Django", "req"]
       List(<<S_Django, S_req>>),
       \* "req": a string, not a list
       S_req >>

\* project.optional-dependencies
Pep621OptionalPool ==
    << Absent,
       \* {dev = ["Foo_Bar"]}
       Dict(<< <<<<"d", "e", "v">>, List(<<S_Foo_Bar>>)>> >>),
       \* ["req"]: a list, not a table
       List(<<S_req>>),
       \* {a = ["Django"], b = 1, c = ["req"]}
       Dict(<< <<<<"a">>, List(<<S_Django>>)>>, <<<<"b">>, PyInt>>,
               <<<<"c">>, List(<<S_req>>)>> >>),
       \* {dev = "a-b"}: a string, not a list
       Dict(<< <<<<"d", "e", "v">>, S_a_b>> >>) >>

\* tool.poetry.dependencies
PoetryMainPool ==
    << Absent,
       \* {python = "1", Django = "1", req = "1"}
       Dict(<< <<K_python, S_version>>, <<<<"D", "j", "a", "n", "g", "o">>, S_version>>,
               <<<<"r", "e", "q">>, S_version>> >>),
       \* ["req"]: a list, not a table
       List(<<S_req>>) >>

\* tool.poetry.group
PoetryGroupPool ==
    << Absent,
       \* {dev.dependencies = {python = "1", pytest = "1"}}
       Dict(<< <<<<"d", "e", "v">>, Dict(<< <<K_dependencies,
                     Dict(<< <<K_python, S_version>>,
                             <<<<"p", "y", "t", "e", "s", "t">>, S_version>> >>)>> >>)>> >>),
       \* {a.dependencies = {black = "1"}, b = 1, c.dependencies = {req = "1"}}
       Dict(<< <<<<"a">>, Dict(<< <<K_dependencies,
                     Dict(<< <<<<"b", "l", "a", "c", "k">>, S_version>> >>)>> >>)>>,
               <<<<"b">>, PyInt>>,
               <<<<"c">>, Dict(<< <<K_dependencies,
                     Dict(<< <<<<"r", "e", "q">>, S_version>> >>)>> >>)>> >>),
       \* {a.dependencies = {black = "1"}, b = {}}: group b has no dependencies
       Dict(<< <<<<"a">>, Dict(<< <<K_dependencies,
                     Dict(<< <<<<"b", "l", "a", "c", "k">>, S_version>> >>)>> >>)>>,
               <<<<"b">>, Dict(<<>>)>> >>),
       \* {a = {}, c.dependencies = {python = "1", req = "1"}}: group a has no
       \* dependencies
       Dict(<< <<<<"a">>, Dict(<<>>)>>,
               <<<<"c">>, Dict(<< <<K_dependencies,
                     Dict(<< <<K_python, S_version>>,
                             <<<<"r", "e", "q">>, S_version>> >>)>> >>)>> >>) >>

\* tool.poetry.extras
PoetryExtrasPool ==
    << Absent,
       \* {x = ["Django"]}
       Dict(<< <<<<"x">>, List(<<S_Django>>)>> >>),
       \* {a = ["req"], b = 1, c = ["pytest"]}
       Dict(<< <<<<"a">>, List(<<S_req>>)>>, <<<<"b">>, PyInt>>,
               <<<<"c">>, List(<<S_pytest>>)>> >>),
       \* 1: not a table
       PyInt >>

\* a table of the given items, without those that are absent
Table(items) ==
    LET present(item) == item[2].t # "absent" IN Dict(SelectSeq(items, present))

\* The documents of the model: how the containers of the five fields look.
TopShapes == {"tables", "no project", "no tool", "no poetry", "tool is int",
              "tool is str", "project is int", "poetry is int"}

Document(shape, main, optional, pmain, pgroup, pextras) ==
    LET project == Table(<< <<K_dependencies, main>>,
                            <<K_optional_dependencies, optional>> >>)
        poetry == Table(<< <<K_dependencies, pmain>>, <<K_group, pgroup>>,
                           <<K_extras, pextras>> >>)
        theProject == CASE shape = "no project" -> Absent
                        [] shape = "project is int" -> PyInt
                        [] OTHER -> project
        theTool == CASE shape = "no tool" -> Absent
                     [] shape = "no poetry" -> Dict(<<>>)
                     [] shape = "tool is int" -> PyInt
                     [] shape = "tool is str" -> Str(K_poetry)
                     [] shape = "poetry is int" -> Dict(<< <<K_poetry, PyInt>> >>)
                     [] OTHER -> Dict(<< <<K_poetry, poetry>> >>)
    IN Table(<< <<K_project, theProject>>, <<K_tool, theTool>> >>)

PyprojectPath == "pyproject.toml"

InitPyproject ==
    \/ Idle(BrokenTomlText)
    \/ \E shape \in TopShapes,
          m \in 1..Len(Pep621MainPool), o \in 1..Len(Pep621OptionalPool),
          pm \in 1..Len(PoetryMainPool), pg \in 1..Len(PoetryGroupPool),
          pe \in 1..Len(PoetryExtrasPool) :
           Idle(TomlText(Document(shape, Pep621MainPool[m], Pep621OptionalPool[o],
                                  PoetryMainPool[pm], PoetryGroupPool[pg],
                                  PoetryExtrasPool[pe])))

CallParsePyproject ==
    /\ pc = "idle"
    /\ Start(parse_pyproject_contents(arg, PyprojectPath))
    /\ UNCHANGED <<arg, out, error, fileIdx, reads, result>>

NextPyproject == CallParsePyproject \/ Yield \/ Return \/ Raise

SpecPyproject == InitPyproject /\ [][NextPyproject]_vars

\* Helpers of the statements below.
FieldTypes == {"PEP621 main", "PEP621 optional", "Poetry main", "Poetry group",
               "Poetry extra"}

\* C6: a pyproject.toml field found to have a value of the wrong shape (its
\* parse failure is logged at error level) contributes no record at all.
C6_MalformedFieldDropped ==
    Finished =>
        \A f \in FieldTypes : Logged("error", f) => OutFrom(f) = <<>>

\* C8: every record emitted has a lower-case name.
C8_LowercaseNames ==
    \A i \in 1..Len(out) : out[i].name = Lower(out[i].name)

\* the containers of the five fields are tables, where they exist
ContainersOk(doc) ==
    /\ HasKey(doc, K_project) => Lookup(doc, K_project).t = "dict"
    /\ HasKey(doc, K_tool) =>
           /\ Lookup(doc, K_tool).t = "dict"
           /\ HasKey(Lookup(doc, K_tool), K_poetry) =>
                  Lookup(Lookup(doc, K_tool), K_poetry).t = "dict"

Keep(table, keys) ==
    LET kept(item) == item[1] \in keys IN Dict(SelectSeq(table.v, kept))

\* the document with every field but field_type taken out
OnlyField(doc, field_type) ==
    LET project == IF HasKey(doc, K_project) THEN Lookup(doc, K_project)
                   ELSE Dict(<<>>)
        tool == IF HasKey(doc, K_tool) THEN Lookup(doc, K_tool) ELSE Dict(<<>>)
        poetry == IF HasKey(tool, K_poetry) THEN Lookup(tool, K_poetry)
                  ELSE Dict(<<>>)
        projectKeys == CASE field_type = "PEP621 main" -> {K_dependencies}
                         [] field_type = "PEP621 optional" -> {K_optional_dependencies}
                         [] OTHER -> {}
        poetryKeys == CASE field_type = "Poetry main" -> {K_dependencies}
                        [] field_type = "Poetry group" -> {K_group}
                        [] field_type = "Poetry extra" -> {K_extras}
                        [] OTHER -> {}
    IN Dict(<< <<K_project, Keep(project, projectKeys)>>,
               <<K_tool, Dict(<< <<K_poetry, Keep(poetry, poetryKeys)>> >>)>> >>)

Alone(doc, field_type) ==
    parse_pyproject_contents(TomlText(OnlyField(doc, field_type)), PyprojectPath)

\* the field is there and, on its own, is parsed without a complaint
WellFormed(doc, field_type) ==
    LET g == Alone(doc, field_type)
    IN /\ g.exc = "none"
       /\ \A i \in 1..Len(g.log) : g.log[i].what # field_type

\* C7: on valid TOML whose only defects are missing or wrongly shaped fields,
\* parse_pyproject_contents raises nothing, and every field that is present
\* and well-formed yields exactly the records it yields when it is the only
\* field of the document.
C7_FieldsIndependent ==
    (Finished /\ arg.valid_toml /\ ContainersOk(arg.doc)) =>
        /\ error = "none"
        /\ \A f \in FieldTypes :
               WellFormed(arg.doc, f) => OutFrom(f) = Alone(arg.doc, f).recs

\* the [tool.poetry] table of a document whose containers are tables
HasPoetry(doc) ==
    /\ ContainersOk(doc)
    /\ HasKey(doc, K_tool)
    /\ HasKey(Lookup(doc, K_tool), K_poetry)
PoetryTable(doc) == Lookup(Lookup(doc, K_tool), K_poetry)
IsMapping(table, key) == HasKey(table, key) /\ Lookup(table, key).t = "dict"

\* the keys of a table other than "python", in the order of the table
KeysButPython(table) ==
    LET notPython(k) == k # K_python IN SelectSeq(DictKeys(table), notPython)

RECURSIVE Concat(_)
Concat(seqs) == IF Len(seqs) = 0 THEN <<>> ELSE Head(seqs) \o Concat(Tail(seqs))

\* the keys but "python" of every group.<name>.dependencies that is a mapping
GroupKeysButPython(poetry) ==
    LET withDeps(g) == g.t = "dict" /\ IsMapping(g, K_dependencies)
        groups == SelectSeq(DictValues(Lookup(poetry, K_group)), withDeps)
    IN Concat([i \in 1..Len(groups) |->
                  KeysButPython(Lookup(groups[i], K_dependencies))])

NamesFrom(field_type) ==
    [i \in 1..Len(OutFrom(field_type)) |-> OutFrom(field_type)[i].name]

\* C13: when parse_pyproject_contents returns, the records read from
\* tool.poetry.dependencies, if it is a mapping, are one per key other than
\* "python", and so are the records read from every
\* tool.poetry.group.<name>.dependencies that is a mapping; none is named
\* "python".
C13_OnePerKeyButPython ==
    (pc = "returned" /\ arg.valid_toml /\ HasPoetry(arg.doc)) =>
        LET poetry == PoetryTable(arg.doc)
        IN /\ IsMapping(poetry, K_dependencies) =>
                  NamesFrom("Poetry main")
                      = KeysButPython(Lookup(poetry, K_dependencies))
           /\ IsMapping(poetry, K_group) =>
                  NamesFrom("Poetry group") = GroupKeysButPython(poetry)
           /\ \A i \in 1..Len(out) :
                  out[i].origin \in {"Poetry main", "Poetry group"}
                      => out[i].name # K_python

(***************************************************************************)
(* setup.cfg.  A text is the sections configparser reads from it, each     *)
(* <<section, <<option, value>>...>>, or is not valid INI (read_string     *)
(* raises).                                                                *)
(***************************************************************************)
CfgText(sections) == [parse_error |-> FALSE, sections |-> sections]

HasSection(text, section) ==
    \E i \in 1..Len(text.sections) : text.sections[i][1] = section
SectionOptions(text, section) ==
    text.sections[CHOOSE i \in 1..Len(text.sections) :
                      text.sections[i][1] = section][2]

\* extract_section
extract_section(text, section, path_hint) ==
    IF HasSection(text, section)
    THEN LET options == SectionOptions(text, section)
         IN ThenAll([i \in 1..Len(options) |->
                parse_requirements_contents(Str(options[i][2]), path_hint)])
    ELSE Empty

\* extract_option_from_section
extract_option_from_section(text, section, option, path_hint) ==
    IF HasSection(text, section)
    THEN LET options == SectionOptions(text, section)
             named(o) == o[1] = option
             found == SelectSeq(options, named)
         IN IF Len(found) = 0 THEN Empty
            ELSE parse_requirements_contents(Str(found[1][2]), path_hint)
    ELSE Empty

parse_setup_cfg_contents(text, path_hint) ==
    IF text.parse_error THEN Raises("configparser.Error")
    ELSE
    Then(From("install_requires",
              extract_option_from_section(text, "options", "install_requires",
                                          path_hint)),
    Then(From("extras_require",
              Then(extract_option_from_section(text, "options", "extras_require",
                                               path_hint),
                   extract_section(text, "options.extras_require", path_hint))),
         From("tests_require",
              Then(extract_option_from_section(text, "options", "tests_require",
                                               path_hint),
                   extract_section(text, "options.tests_require", path_hint)))))

(***************************************************************************)
(* extract_dependencies(path).  A path is a file, or a directory whose     *)
(* walk (walk_dir) gives files in some order; arg.files holds the one file *)
(* or the files of the walk.  A file is [name, text].                      *)
(***************************************************************************)
ParserNames == {"requirements.txt", "requirements.in", "setup.py", "setup.cfg",
                "pyproject.toml"}

\* parsers[name](text, path_hint)
Dispatch(name, text, path_hint) ==
    CASE name \in {"requirements.txt", "requirements.in"} ->
            parse_requirements_contents(text, path_hint)
      [] name = "setup.py" -> parse_setup_contents(text, path_hint)
      [] name = "setup.cfg" -> parse_setup_cfg_contents(text, path_hint)
      [] name = "pyproject.toml" -> parse_pyproject_contents(text, path_hint)

File(name, text) == [name |-> name, text |-> text]

\* the path of the i-th file of arg.files
FilePath(i) == [entry |-> i, name |-> arg.files[i].name]

WalkFilePool ==
    << File("requirements.txt", S_Django),
       File("requirements.in", S_req),
       \* setup(install_requires=["Django"])
       File("setup.py", SetupText(Module(<<StmtPool[2]>>))),
       File("setup.py", BrokenSetupText),
       \* [options] install_requires = pytest; [options.extras_require] x = req
       File("setup.cfg",
            CfgText(<< <<"options",
                         << <<"install_requires",
                              <<"p", "y", "t", "e", "s", "t">> >> >> >>,
                       <<"options.extras_require",
                         << <<"x", <<"r", "e", "q">> >> >> >> >>)),
       \* [project] dependencies = ["Django", "req"]
       File("pyproject.toml",
            TomlText(Document("no tool", Pep621MainPool[2], Absent, Absent, Absent,
                              Absent))),
       File("pyproject.toml", BrokenTomlText),
       File("README.md", S_req),
       \* a requirements file under a name that has no parser
       File("requirements-dev.txt", S_Django) >>

WalkIndexSeqs == UNION {[1..n -> 1..Len(WalkFilePool)] : n \in 0..MaxFiles}

InitExtract ==
    \/ \E i \in 1..Len(WalkFilePool) :
           Idle([is_file |-> TRUE, files |-> <<WalkFilePool[i]>>])
    \/ \E idx \in WalkIndexSeqs :
           Idle([is_file |-> FALSE,
                 files |-> [i \in 1..Len(idx) |-> WalkFilePool[idx[i]]]])

\* extract_dependencies(path) is called: a generator that has not run yet
CallExtract ==
    /\ pc = "idle"
    /\ pc' = "running"
    /\ UNCHANGED <<arg, pending, raising, out, error, log, fileIdx, reads, result>>

\* the next file, with every name taken for a requirements file when no
\* parser is registered for it
ExtractNext_AnyName ==
    /\ pc = "running"
    /\ Len(pending) = 0
    /\ raising = "none"
    /\ fileIdx < Len(arg.files)
    /\ fileIdx' = fileIdx + 1
    /\ LET file == arg.files[fileIdx + 1]
       IN /\ reads' = Append(reads, fileIdx + 1)
          /\ Start(IF file.name \in ParserNames
                   THEN Dispatch(file.name, file.text, FilePath(fileIdx + 1))
                   ELSE parse_requirements_contents(file.text,
                                                    FilePath(fileIdx + 1)))
    /\ UNCHANGED <<arg, out, error, result>>

\* the next file, read and parsed without waiting for the records of the one
\* before to be yielded
ExtractNext_Eager ==
    /\ pc = "running"
    /\ raising = "none"
    /\ fileIdx < Len(arg.files)
    /\ fileIdx' = fileIdx + 1
    /\ LET file == arg.files[fileIdx + 1]
       IN IF file.name \in ParserNames
          THEN LET g == Dispatch(file.name, file.text, FilePath(fileIdx + 1))
               IN /\ reads' = Append(reads, fileIdx + 1)
                  /\ pending' = pending \o g.recs
                  /\ raising' = g.exc
                  /\ log' = log \o g.log
          ELSE /\ log' = IF arg.is_file
                         THEN Append(log, LogEntry("error", "not supported"))
                         ELSE log
               /\ UNCHANGED <<pending, raising, reads>>
    /\ UNCHANGED <<pc, arg, out, error, result>>

\* The next file to look at: the path itself (if path.is_file()), or the next
\* file of walk_dir(path) once the parser of the one before is exhausted.  A
\* file with a parser is read and parsed; a path without one is reported, a
\* walked file without one is passed over.
ExtractNext ==
    /\ pc = "running"
    /\ Len(pending) = 0
    /\ raising = "none"
    /\ fileIdx < Len(arg.files)
    /\ fileIdx' = fileIdx + 1
    /\ LET file == arg.files[fileIdx + 1]
       IN IF file.name \in ParserNames
          THEN /\ reads' = Append(reads, fileIdx + 1)
               /\ Start(Dispatch(file.name, file.text, FilePath(fileIdx + 1)))
          ELSE /\ log' = IF arg.is_file
                         THEN Append(log, LogEntry("error", "not supported"))
                         ELSE log
               /\ UNCHANGED <<pc, pending, raising, reads>>
    /\ UNCHANGED <<arg, out, error, result>>

\* the generator is exhausted
ReturnExtract ==
    /\ pc = "running"
    /\ Len(pending) = 0
    /\ raising = "none"
    /\ fileIdx = Len(arg.files)
    /\ pc' = "returned"
    /\ UNCHANGED <<arg, pending, raising, out, error, log, fileIdx, reads, result>>

\* The generator is suspended, waiting for the consumer: it has not run yet,
\* or the last thing it did was to yield a record of the file it is at.
Suspended ==
    /\ pc = "running"
    /\ \/ fileIdx = 0
       \/ Len(out) > 0 /\ out[Len(out)].location = FilePath(fileIdx)

\* the consumer abandons the iteration: the suspended generator is never
\* resumed
Close ==
    /\ Suspended
    /\ pc' = "closed"
    /\ UNCHANGED <<arg, pending, raising, out, error, log, fileIdx, reads, result>>

NextExtract ==
    CallExtract \/ ExtractNext \/ Yield \/ Raise \/ ReturnExtract \/ Close

SpecExtract == InitExtract /\ [][NextExtract]_vars

\* Helpers of the statements below.
OutAt(path) == LET at(r) == r.location = path IN SelectSeq(out, at)
ParsedAlone(i) == Dispatch(arg.files[i].name, arg.files[i].text, FilePath(i))
IsManifest(i) == arg.files[i].name \in ParserNames
Unparsable(i) ==
    IsManifest(i) /\ ParsedAlone(i).exc \in {"SyntaxError", "TOMLDecodeError"}

\* C4: in a directory walk with a setup.py or pyproject.toml that cannot be
\* parsed, every other manifest file of the walk, before or after it, still
\* has its declared dependencies produced.
C4_OtherFilesStillExtracted ==
    (/\ Finished
     /\ ~arg.is_file
     /\ \E i \in 1..Len(arg.files) : Unparsable(i))
    => \A i \in 1..Len(arg.files) :
           (IsManifest(i) /\ ~Unparsable(i)) => OutAt(FilePath(i)) = ParsedAlone(i).recs

\* the files of arg.files a parser is registered for, in their order
ManifestIndices ==
    LET registered(i) == IsManifest(i)
    IN SelectSeq([i \in 1..Len(arg.files) |-> i], registered)

\* C14: extract_dependencies yields, and ends, as the registered parsers run
\* one after the other over the files named requirements.txt, requirements.in,
\* setup.py, setup.cfg or pyproject.toml do; a file of any other name is not
\* read and contributes no record, and a single file of another name gives no
\* record and no exception, only the logged error.
C14_OnlyRegisteredNames ==
    Finished =>
        LET all == ThenAll([k \in 1..Len(ManifestIndices) |->
                               ParsedAlone(ManifestIndices[k])])
        IN /\ out = all.recs
           /\ error = all.exc
           /\ \A i \in 1..Len(arg.files) :
                  ~IsManifest(i) =>
                      /\ OutAt(FilePath(i)) = <<>>
                      /\ \A k \in 1..Len(reads) : reads[k] # i
           /\ (arg.is_file /\ ~IsManifest(1)) =>
                  /\ pc = "returned"
                  /\ out = <<>>
                  /\ Logged("error", "not supported")

\* a walk of a manifest file, README.md and another manifest file that
\* returns with records of the first and of the third file only
C14_Witness ==
    /\ pc = "returned"
    /\ ~arg.is_file
    /\ Len(arg.files) = 3
    /\ IsManifest(1) /\ ~IsManifest(2) /\ IsManifest(3)
    /\ OutAt(FilePath(1)) # <<>>
    /\ OutAt(FilePath(3)) # <<>>
    /\ reads = <<1, 3>>

\* the records yielded so far are in the order of the files they come from
Contiguous ==
    \A i, j \in 1..Len(out) :
        i < j => out[i].location.entry <= out[j].location.entry

\* every record of every file read so far has been yielded
AllYielded ==
    /\ Len(pending) = 0
    /\ \A k \in 1..Len(reads) :
           OutAt(FilePath(reads[k])) = ParsedAlone(reads[k]).recs

\* no file after the one whose record the consumer received last has been read
NoLaterRead ==
    \A k \in 1..Len(reads) :
        /\ Len(out) > 0
        /\ reads[k] <= out[Len(out)].location.entry

\* C15: in a directory walk the records of a file are yielded contiguously, in
\* the order of the files; a file is read only when every record of the files
\* read before it has been yielded; and once the consumer has abandoned the
\* iteration no file is read, none having been read after the file of the
\* last record it received.
C15_OneFileAtATime ==
    /\ [](~arg.is_file => Contiguous)
    /\ [][(~arg.is_file /\ reads' # reads) => AllYielded]_vars
    /\ [](pc = "closed" => NoLaterRead)
    /\ [][pc = "closed" => reads' = reads]_vars

\* the consumer has abandoned a walk of two manifest files after a record of
\* the first: the second has not been read
C15_Witness ==
    /\ pc = "closed"
    /\ ~arg.is_file
    /\ Len(arg.files) >= 2
    /\ IsManifest(1) /\ IsManifest(2)
    /\ ParsedAlone(2).recs # <<>>
    /\ Len(out) > 0
    /\ reads = <<1>>

(***************************************************************************)
(* The Reconciliation Engine, compare_imports_to_dependencies(imports,     *)
(* dependencies, ignored_unused, ignored_undeclared).  An occurrence       *)
(* (ParsedImport or DeclaredDependency) is [name, location].               *)
(***************************************************************************)
\* dict.setdefault(name, []).append(occurrence): groups keeps first-seen order
AddToGroups_FirstOnly(groups, occ) ==
    IF \E i \in 1..Len(groups) : groups[i].name = occ.name
    THEN groups
    ELSE Append(groups, [name |-> occ.name, occurrences |-> <<occ>>])

AddToGroups(groups, occ) ==
    IF \E i \in 1..Len(groups) : groups[i].name = occ.name
    THEN [i \in 1..Len(groups) |->
             IF groups[i].name = occ.name
             THEN [groups[i] EXCEPT !.occurrences = Append(@, occ)]
             ELSE groups[i]]
    ELSE Append(groups, [name |-> occ.name, occurrences |-> <<occ>>])

\* steps 1 and 2: group the occurrences by name
RECURSIVE GroupByName(_, _)
GroupByName(occs, groups) ==
    IF Len(occs) = 0 THEN groups
    ELSE GroupByName(Tail(occs), AddToGroups(groups, Head(occs)))

GroupNames(groups) == {groups[i].name : i \in 1..Len(groups)}

compare_swapped_ignores(imports, dependencies, ignored_unused, ignored_undeclared) ==
    LET imported == GroupByName(imports, <<>>)
        declared == GroupByName(dependencies, <<>>)
        isUndeclared(g) ==
            g.name \notin GroupNames(declared) /\ g.name \notin ignored_unused
        isUnused(g) ==
            g.name \notin GroupNames(imported) /\ g.name \notin ignored_undeclared
    IN <<SelectSeq(imported, isUndeclared), SelectSeq(declared, isUnused)>>

\* steps 3 to 5
compare_imports_to_dependencies(imports, dependencies, ignored_unused, ignored_undeclared) ==
    LET imported == GroupByName(imports, <<>>)
        declared == GroupByName(dependencies, <<>>)
        isUndeclared(g) ==
            g.name \notin GroupNames(declared) /\ g.name \notin ignored_undeclared
        isUnused(g) ==
            g.name \notin GroupNames(imported) /\ g.name \notin ignored_unused
    IN <<SelectSeq(imported, isUndeclared), SelectSeq(declared, isUnused)>>

CmpNames == {"pandas", "numpy"}
CmpLocations == {"<stdin>", "my_file.py:3"}
Occurrences == [name : CmpNames, location : CmpLocations]
OccurrenceSeqs == UNION {[1..n -> Occurrences] : n \in 0..MaxOccurrences}

InitCompare ==
    \E imports \in OccurrenceSeqs, dependencies \in OccurrenceSeqs,
       ignored_unused \in SUBSET CmpNames, ignored_undeclared \in SUBSET CmpNames :
        Idle([imports |-> imports, dependencies |-> dependencies,
              ignored_unused |-> ignored_unused,
              ignored_undeclared |-> ignored_undeclared])

Compare ==
    /\ pc = "idle"
    /\ pc' = "compared"
    /\ result' = compare_imports_to_dependencies(
                     arg.imports, arg.dependencies,
                     arg.ignored_unused, arg.ignored_undeclared)
    /\ UNCHANGED <<arg, pending, raising, out, error, log, fileIdx, reads>>

NextCompare == Compare

SpecCompare == InitCompare /\ [][NextCompare]_vars

\* Helpers of the statements below.
NamesOf(occs) == {occs[i].name : i \in 1..Len(occs)}
FirstIndex(occs, n) == CHOOSE i \in 1..Len(occs) :
                           occs[i].name = n /\ \A k \in 1..(i - 1) : occs[k].name # n
OccurrencesOf(occs, n) == LET named(o) == o.name = n IN SelectSeq(occs, named)
undeclared == result[1]
unused == result[2]

\* C1: the undeclared list holds an entry for a name exactly when the name is
\* imported, is not the name of a declared dependency and is not in
\* ignored_undeclared; its entries are in first-seen order of the import names;
\* it is the same whatever ignored_unused is.
C1_Undeclared ==
    pc = "compared" =>
        /\ \A n \in CmpNames :
               (\E i \in 1..Len(undeclared) : undeclared[i].name = n)
               <=> /\ n \in NamesOf(arg.imports)
                   /\ n \notin NamesOf(arg.dependencies)
                   /\ n \notin arg.ignored_undeclared
        /\ \A i, j \in 1..Len(undeclared) :
               i < j => FirstIndex(arg.imports, undeclared[i].name)
                            < FirstIndex(arg.imports, undeclared[j].name)
        /\ \A other \in SUBSET CmpNames :
               compare_imports_to_dependencies(
                   arg.imports, arg.dependencies, other,
                   arg.ignored_undeclared)[1] = undeclared

\* Two undeclared names reported in first-seen order, which is not the
\* alphabetical one, while both are listed in ignored_unused.
C1_Witness ==
    /\ pc = "compared"
    /\ Len(undeclared) = 2
    /\ undeclared[1].name = "pandas"
    /\ arg.ignored_unused = CmpNames

\* C2: the unused list holds an entry for a name exactly when the name is
\* declared, is not imported and is not in ignored_unused; its entries are in
\* first-seen order of the declared names; it is the same whatever
\* ignored_undeclared is.
C2_Unused ==
    pc = "compared" =>
        /\ \A n \in CmpNames :
               (\E i \in 1..Len(unused) : unused[i].name = n)
               <=> /\ n \in NamesOf(arg.dependencies)
                   /\ n \notin NamesOf(arg.imports)
                   /\ n \notin arg.ignored_unused
        /\ \A i, j \in 1..Len(unused) :
               i < j => FirstIndex(arg.dependencies, unused[i].name)
                            < FirstIndex(arg.dependencies, unused[j].name)
        /\ \A other \in SUBSET CmpNames :
               compare_imports_to_dependencies(
                   arg.imports, arg.dependencies, arg.ignored_unused,
                   other)[2] = unused

\* A declared, never imported name that is listed only in ignored_undeclared
\* is reported as unused.
C2_Witness ==
    /\ pc = "compared"
    /\ Len(unused) = 1
    /\ unused[1].name = "numpy"
    /\ "numpy" \in arg.ignored_undeclared
    /\ arg.ignored_unused = {"pandas"}
    /\ "pandas" \in NamesOf(arg.dependencies)

\* C3: in both lists no two entries share a name, the occurrences of an entry
\* all have the entry's name, and they are all the input occurrences of that
\* name, in their input order.
C3_Grouping ==
    pc = "compared" =>
        /\ \A i, j \in 1..Len(undeclared) :
               undeclared[i].name = undeclared[j].name => i = j
        /\ \A i, j \in 1..Len(unused) : unused[i].name = unused[j].name => i = j
        /\ \A i \in 1..Len(undeclared) :
               /\ \A k \in 1..Len(undeclared[i].occurrences) :
                      undeclared[i].occurrences[k].name = undeclared[i].name
               /\ undeclared[i].occurrences
                      = OccurrencesOf(arg.imports, undeclared[i].name)
        /\ \A i \in 1..Len(unused) :
               /\ \A k \in 1..Len(unused[i].occurrences) :
                      unused[i].occurrences[k].name = unused[i].name
               /\ unused[i].occurrences
                      = OccurrencesOf(arg.dependencies, unused[i].name)

\* One undeclared name imported from two different locations: one entry
\* holding both imports.
C3_Witness ==
    /\ pc = "compared"
    /\ Len(undeclared) = 1
    /\ Len(undeclared[1].occurrences) = 2
    /\ undeclared[1].occurrences[1].location
           # undeclared[1].occurrences[2].location

====
